---- MODULE Spec2Model ----
(***************************************************************************)
(* A model of britt-marie's modification-aware hash index                  *)
(* (src/src/index/hash/table.rs, src/src/index/hash/mod.rs), of its value  *)
(* index (src/src/index/value/mod.rs) and of the durable store they share  *)
(* (src/src/raw_store).                                                    *)
(*                                                                         *)
(* The raw table is modelled byte for byte: the control stream and the     *)
(* meta stream are arrays of bucket_mask + 1 + WIDTH bytes, group loads    *)
(* read WIDTH consecutive bytes, and every table operation is an operator  *)
(* from a table record to a table record that follows the Rust code        *)
(* statement by statement.  Keys and values are u64, hashed with FxHash    *)
(* as in the repository's tests (HashIndex<u64, u64>).  The build modelled *)
(* is the release build: debug_assert! is compiled out.                    *)
(***************************************************************************)
EXTENDS Integers, Sequences, FiniteSets, TLC

\* ---------------------------------------------------------------- bounds
NKeys == 4
NVals == 2
MaxCheckpoints == 5

\* The keys 0, 1, 3, 7, ...: under FxHash they start their probe at the
\* buckets 0, 1, 3, 3, ... of a table of four buckets, so the last bucket is
\* contended and the first one is reached by wrapping around.
Keys == {2^i - 1 : i \in 0 .. (NKeys - 1)}
Values == 1 .. NVals

\* The workload: key 0 is written with every value, the other keys with one
\* value (their residency, dirtiness and durability still vary).
ValuesOf(k) == IF k = 0 THEN Values ELSE {1}

\* <<capacity, mod_factor in tenths>> handed to HashIndex::new / cow: a table
\* of four buckets that may hold two dirty buckets, and a table of two
\* buckets whose modification ceiling is 0
Configs == {<<3, 9>>, <<1, 9>>}

\* The arguments handed to the constructors when the check of mod_factor is
\* what matters: capacities 0 .. MaxCapacity, mod_factor (in tenths) from
\* below 0 to above 0.9
MaxCapacity == 3
MaxFactor == 10
Capacities == 0 .. MaxCapacity
Factors == -1 .. MaxFactor

\* ------------------------------------------------------- program constants
WIDTH == 16
EMPTY == 255
DELETED == 128
MODIFIED == 128
MODIFIED_TOUCHED == 192
SAFE == 0
SAFE_TOUCHED == 64

NoEntry == <<>>
NoIndex == -1

\* ------------------------------------------------------------- the state
VARIABLES
    bucket_mask,    \* RawTable.bucket_mask
    mod_limit,      \* RawTable.mod_limit
    mode,           \* HashIndex.mode: "Lazy" or "Cow"
    ctrl,           \* control stream, bucket_mask + 1 + WIDTH bytes
    meta,           \* meta stream, bucket_mask + 1 + WIDTH bytes
    data,           \* bucket region: index -> <<k, v>> or NoEntry
    items,          \* RawTable.items
    growth_left,    \* RawTable.growth_left
    mod_counter,    \* RawTable.mod_counter
    store,          \* the durable store: raw key -> raw value (or absent)
    faulty,         \* whether the durable store may fail a call
    fault,          \* "none", or how the program stopped
    shadow,         \* ghost: key -> value most recently written by put/rmw
    vdata,          \* ValueIndex.data
    vmode,          \* ValueIndex.mode
    checkpoint_counter, \* Backend.checkpoint_counter
    snapshots           \* the directories create_checkpoint has made, in order

vars == <<bucket_mask, mod_limit, mode, ctrl, meta, data, items, growth_left,
          mod_counter, store, faulty, fault, shadow, vdata, vmode, checkpoint_counter,
          snapshots>>

\* ------------------------------------------------------ bytes and hashes
is_full(c) == c < 128
is_special(c) == c >= 128
special_is_empty(c) == c % 2 = 1
is_modified(m) == m >= 128
is_safe(m) == m < 128

\* FxHasher64 on one u64 word: hash = k * 0x517cc1b727220a95 mod 2^64.
\* Only the low byte and the top 7 bits are ever used.
make_hash(k) == [lo |-> (k * 149) % 256,
                 hi |-> ((k * 5340353) % 16777216) \div 131072]
h1(hash) == hash.lo
h2(hash) == hash.hi

Min(S) == CHOOSE x \in S : \A y \in S : x <= y
Max(S) == CHOOSE x \in S : \A y \in S : x >= y

\* ---------------------------------------------------- Group and BitMask
\* A group is the WIDTH bytes starting at pos; a bit mask is the set of
\* byte offsets that matched.
Load(arr, pos) == [i \in 0 .. (WIDTH - 1) |-> arr[pos + i]]
match_byte(group, b) == {i \in 0 .. (WIDTH - 1) : group[i] = b}
match_empty(group) == match_byte(group, EMPTY)
match_empty_or_deleted(group) == {i \in 0 .. (WIDTH - 1) : group[i] >= 128}
match_modified(group) == {i \in 0 .. (WIDTH - 1) : group[i] >= 128}
lowest_set_bit(mask) == IF mask = {} THEN NoIndex ELSE Min(mask)
trailing_zeros(mask) == IF mask = {} THEN WIDTH ELSE Min(mask)
leading_zeros(mask) == IF mask = {} THEN WIDTH ELSE WIDTH - 1 - Max(mask)

\* ------------------------------------------------------------ raw table
\* A value bound to a name: With(e, LAMBDA x : body) is body with x = e
With(x, Body(_)) == Body(x)

buckets(t) == t.bucket_mask + 1
num_ctrl_bytes(t) == t.bucket_mask + 1 + WIDTH
\* x & bucket_mask, also for the wrapped difference index - WIDTH
Masked(t, x) == (x + WIDTH * (t.bucket_mask + 1)) % (t.bucket_mask + 1)

next_power_of_two(n) == Min({p \in {2^i : i \in 0 .. 10} : p >= n})

\* capacity_to_buckets without the free slot of small tables and without the
\* 8/7 of larger ones
capacity_to_buckets_no_slack(cap) == next_power_of_two(cap)

capacity_to_buckets(cap) ==
    next_power_of_two(IF cap < 8 THEN cap + 1 ELSE (cap * 8) \div 7)

bucket_mask_to_capacity(mask) ==
    IF mask < 8 THEN mask ELSE ((mask + 1) \div 8) * 7

\* RawTable::new: the sentinel table of capacity 0
new ==
    [bucket_mask |-> 0,
     ctrl |-> [i \in 0 .. (WIDTH - 1) |-> EMPTY],
     meta |-> [i \in 0 .. (WIDTH - 1) |-> EMPTY],
     data |-> [i \in 0 .. 0 |-> NoEntry],
     items |-> 0, growth_left |-> 0, mod_counter |-> 0, mod_limit |-> 0,
     fault |-> "none"]

\* new_uninitialized followed by the two write_bytes of try_with_capacity;
\* mod_factor is given in tenths
new_uninitialized(nbuckets, mod_factor) ==
    [bucket_mask |-> nbuckets - 1,
     ctrl |-> [i \in 0 .. (nbuckets + WIDTH - 1) |-> EMPTY],
     meta |-> [i \in 0 .. (nbuckets + WIDTH - 1) |-> SAFE],
     data |-> [i \in 0 .. (nbuckets - 1) |-> NoEntry],
     items |-> 0,
     growth_left |-> bucket_mask_to_capacity(nbuckets - 1),
     mod_counter |-> 0,
     mod_limit |-> (bucket_mask_to_capacity(nbuckets - 1) * mod_factor) \div 10,
     fault |-> "none"]

try_with_capacity(capacity, mod_factor) ==
    IF capacity = 0 THEN new
    ELSE new_uninitialized(capacity_to_buckets(capacity), mod_factor)

\* with_capacity without its assert!
with_capacity_unchecked(capacity, mod_factor) == try_with_capacity(capacity, mod_factor)

with_capacity(capacity, mod_factor) ==
    IF mod_factor > 0 /\ mod_factor <= 9
    THEN try_with_capacity(capacity, mod_factor)
    ELSE [new EXCEPT !.fault = "panic"]

\* ProbeSeq::next that ends after the first window
ProbeFrom_first_group(mask, pos, stride) ==
    IF stride >= mask THEN <<>> ELSE <<pos>>

\* ProbeSeq::next, unrolled: the positions the iterator yields
RECURSIVE ProbeFrom(_, _, _)
ProbeFrom(mask, pos, stride) ==
    IF stride >= mask THEN <<>>
    ELSE <<pos>> \o ProbeFrom(mask, (pos + stride + WIDTH) % (mask + 1), stride + WIDTH)

probe_seq(t, hash) == ProbeFrom(t.bucket_mask, h1(hash) % (t.bucket_mask + 1), 0)

\* set_ctrl without the write of the trailing replica (lines 565-566)
set_ctrl_primary_only(t, index, c) == [t EXCEPT !.ctrl = [t.ctrl EXCEPT ![index] = c]]

set_ctrl(t, index, c) ==
    [t EXCEPT !.ctrl = [t.ctrl EXCEPT ![index] = c,
                                      ![Masked(t, index - WIDTH) + WIDTH] = c]]

set_meta(t, index, m) ==
    [t EXCEPT !.meta = [t.meta EXCEPT ![index] = m,
                                      ![Masked(t, index - WIDTH) + WIDTH] = m]]

\* Reading, writing or erasing a slot outside the bucket region is undefined
\* behaviour, and so is reading a bucket that holds no element; the program
\* is taken to stop there.
Stop(t, how) == [t EXCEPT !.fault = how]
InRange(t, index) == index >= 0 /\ index <= t.bucket_mask

\* The test of erase_by_index with > in place of >=
ErasedCtrl_beyond_width(t, index) ==
    IF leading_zeros(match_empty(Load(t.ctrl, Masked(t, index - WIDTH))))
         + trailing_zeros(match_empty(Load(t.ctrl, index))) > WIDTH
    THEN DELETED ELSE EMPTY

\* The test of erase_by_index that hands a DELETED slot back as EMPTY
ErasedCtrl_reclaims_deleted(t, index) ==
    IF t.ctrl[index] # DELETED
         /\ leading_zeros(match_empty(Load(t.ctrl, Masked(t, index - WIDTH))))
              + trailing_zeros(match_empty(Load(t.ctrl, index))) >= WIDTH
    THEN DELETED ELSE EMPTY

\* The choice erase_by_index makes for the control byte of the erased slot
ErasedCtrl(t, index) ==
    IF leading_zeros(match_empty(Load(t.ctrl, Masked(t, index - WIDTH))))
         + trailing_zeros(match_empty(Load(t.ctrl, index))) >= WIDTH
    THEN DELETED ELSE EMPTY

\* erase_by_index without self.growth_left += 1
erase_by_index_keeps_growth(t, index) ==
    IF ~InRange(t, index) THEN Stop(t, "ub")
    ELSE With(ErasedCtrl(t, index), LAMBDA c :
         [set_ctrl(t, index, c) EXCEPT
            !.items = t.items - 1,
            !.data = [t.data EXCEPT ![index] = NoEntry]])

erase_by_index(t, index) ==
    IF ~InRange(t, index) THEN Stop(t, "ub")
    ELSE With(ErasedCtrl(t, index), LAMBDA c :
         [set_ctrl(t, index, c) EXCEPT
            !.growth_left = IF c = EMPTY THEN t.growth_left + 1 ELSE t.growth_left,
            !.items = t.items - 1,
            !.data = [t.data EXCEPT ![index] = NoEntry]])

\* BitMask::lowest_set_bit_nonzero, which is undefined on an empty mask
NoBit == -2
lowest_set_bit_nonzero(mask) == IF mask = {} THEN NoBit ELSE Min(mask)

\* The positions a probe sequence visits
Positions(seq) == {seq[j] : j \in 1 .. Len(seq)}

\* The first position of the probe sequence (in probe order) that is one of
\* found, the positions whose group satisfies the loop's test
FirstPos(seq, found) ==
    With({j \in 1 .. Len(seq) : seq[j] \in found}, LAMBDA hits :
         IF hits = {} THEN NoIndex ELSE seq[Min(hits)])

\* find_insert_slot: the slot index, NoIndex for the unreachable!() arm,
\* NoBit when lowest_set_bit_nonzero is applied to an empty mask
find_insert_slot(t, hash) ==
    With(FirstPos(probe_seq(t, hash),
                  {p \in Positions(probe_seq(t, hash)) :
                      match_empty_or_deleted(Load(t.ctrl, p)) # {}}), LAMBDA pos :
    IF pos = NoIndex THEN NoIndex
    ELSE With(Masked(t, pos + lowest_set_bit(match_empty_or_deleted(Load(t.ctrl, pos)))),
              LAMBDA result :
         IF is_full(t.ctrl[result])
         THEN lowest_set_bit_nonzero(match_empty_or_deleted(Load(t.ctrl, 0)))
         ELSE result))

\* The bit clear_safe_bucket picks in one meta group
SafeBit(group) ==
    IF match_byte(group, SAFE) # {} THEN lowest_set_bit(match_byte(group, SAFE))
    ELSE lowest_set_bit(match_byte(group, SAFE_TOUCHED))

\* The index clear_safe_bucket erases: NoIndex when no group of the probe
\* sequence holds a SAFE or SAFE_TOUCHED byte
SafeVictim(t, hash) ==
    With(FirstPos(probe_seq(t, hash),
                  {p \in Positions(probe_seq(t, hash)) : SafeBit(Load(t.meta, p)) # NoIndex}),
         LAMBDA pos :
    IF pos = NoIndex THEN NoIndex
    ELSE With(Masked(t, pos + SafeBit(Load(t.meta, pos))), LAMBDA result :
         IF is_modified(t.meta[result])
         THEN lowest_set_bit_nonzero(match_empty_or_deleted(Load(t.meta, 0)))
         ELSE result))

clear_safe_bucket(t, hash) ==
    With(SafeVictim(t, hash), LAMBDA index :
    IF index = NoIndex THEN t
    ELSE With(erase_by_index(t, index), LAMBDA t1 :
         IF t1.fault # "none" THEN t1 ELSE set_meta(t1, index, SAFE)))

\* The bit evict_mod_bucket picks in one meta group
ModBit(group) ==
    IF match_byte(group, MODIFIED) # {} THEN lowest_set_bit(match_byte(group, MODIFIED))
    ELSE lowest_set_bit(match_byte(group, MODIFIED_TOUCHED))

\* The index evict_mod_bucket evicts: NoIndex when no group of the probe
\* sequence holds a MODIFIED or MODIFIED_TOUCHED byte (the unreachable!() arm)
ModVictim(t, hash) ==
    With(FirstPos(probe_seq(t, hash),
                  {p \in Positions(probe_seq(t, hash)) : ModBit(Load(t.meta, p)) # NoIndex}),
         LAMBDA pos :
    IF pos = NoIndex THEN NoIndex
    ELSE With(Masked(t, pos + ModBit(Load(t.meta, pos))), LAMBDA result :
         IF is_safe(t.meta[result])
         THEN lowest_set_bit_nonzero(match_empty_or_deleted(Load(t.meta, 0)))
         ELSE result))

\* evict_mod_bucket that erases the victim whatever growth_left is
evict_mod_bucket_always_erases(t, hash) ==
    With(ModVictim(t, hash), LAMBDA index :
    IF index = NoIndex
    THEN [t |-> Stop(t, "panic"), index |-> NoIndex, kv |-> NoEntry]
    ELSE IF ~InRange(t, index)
    THEN [t |-> Stop(t, "ub"), index |-> index, kv |-> NoEntry]
    ELSE [t |-> [set_meta(erase_by_index(t, index), index, SAFE) EXCEPT
                    !.mod_counter = t.mod_counter - 1],
          index |-> index,
          kv |-> t.data[index]])

\* evict_mod_bucket without the set_meta(index, SAFE) of line 713
evict_mod_bucket_keeps_meta(t, hash) ==
    With(ModVictim(t, hash), LAMBDA index :
    IF index = NoIndex
    THEN [t |-> Stop(t, "panic"), index |-> NoIndex, kv |-> NoEntry]
    ELSE IF ~InRange(t, index)
    THEN [t |-> Stop(t, "ub"), index |-> index, kv |-> NoEntry]
    ELSE With(IF t.growth_left = 0 THEN erase_by_index(t, index) ELSE t, LAMBDA t1 :
         [t |-> [t1 EXCEPT !.mod_counter = t.mod_counter - 1],
          index |-> index,
          kv |-> t.data[index]]))

\* evict_mod_bucket: the table afterwards, the index of the returned bucket
\* and what the caller reads through it
evict_mod_bucket(t, hash) ==
    With(ModVictim(t, hash), LAMBDA index :
    IF index = NoIndex
    THEN [t |-> Stop(t, "panic"), index |-> NoIndex, kv |-> NoEntry]
    ELSE IF ~InRange(t, index)
    THEN [t |-> Stop(t, "ub"), index |-> index, kv |-> NoEntry]
    ELSE With(IF t.growth_left = 0 THEN erase_by_index(t, index) ELSE t, LAMBDA t1 :
         [t |-> [set_meta(t1, index, SAFE) EXCEPT !.mod_counter = t.mod_counter - 1],
          index |-> index,
          kv |-> t.data[index]]))

\* RawTable::insert that takes one from growth_left whatever byte the slot held
InsertAt_always_consumes(t, hash, value, index) ==
    IF index = NoIndex THEN Stop(t, "panic")
    ELSE IF ~InRange(t, index) THEN Stop(t, "ub")
    ELSE [set_meta(set_ctrl(t, index, h2(hash)), index, MODIFIED) EXCEPT
            !.growth_left = IF t.growth_left > 0 THEN t.growth_left - 1 ELSE t.growth_left,
            !.data = [t.data EXCEPT ![index] = value],
            !.items = t.items + 1,
            !.mod_counter = t.mod_counter + 1]

\* The part of RawTable::insert after find_insert_slot returned index
InsertAt(t, hash, value, index) ==
    IF index = NoIndex THEN Stop(t, "panic")
    ELSE IF ~InRange(t, index) THEN Stop(t, "ub")
    ELSE [set_meta(set_ctrl(t, index, h2(hash)), index, MODIFIED) EXCEPT
            !.growth_left = IF special_is_empty(t.ctrl[index]) /\ t.growth_left > 0
                            THEN t.growth_left - 1 ELSE t.growth_left,
            !.data = [t.data EXCEPT ![index] = value],
            !.items = t.items + 1,
            !.mod_counter = t.mod_counter + 1]

\* RawTable::insert
insert(t, hash, value) ==
    With(IF t.growth_left = 0 THEN clear_safe_bucket(t, hash) ELSE t, LAMBDA t1 :
    IF t1.fault # "none" THEN t1
    ELSE InsertAt(t1, hash, value, find_insert_slot(t1, hash)))

\* The bits of the group at pos whose control byte is h2(hash) and whose
\* bucket holds key k
KeyBits(t, hash, k, pos) ==
    {bit \in match_byte(Load(t.ctrl, pos), h2(hash)) :
        /\ t.data[Masked(t, pos + bit)] # NoEntry
        /\ t.data[Masked(t, pos + bit)][1] = k}

\* A lookup that looks at the bucket the probe starts at and nowhere else
Lookup_start_bucket_only(t, hash, k) ==
    IF /\ t.ctrl[Masked(t, h1(hash))] = h2(hash)
       /\ t.data[Masked(t, h1(hash))] # NoEntry
       /\ t.data[Masked(t, h1(hash))][1] = k
    THEN Masked(t, h1(hash)) ELSE NoIndex

\* The bucket index find and find_mut return for key k, NoIndex for None:
\* groups in probe order, matching bits in increasing order, first key hit
Lookup(t, hash, k) ==
    With(FirstPos(probe_seq(t, hash),
                  {p \in Positions(probe_seq(t, hash)) : KeyBits(t, hash, k, p) # {}}),
         LAMBDA pos :
    IF pos = NoIndex THEN NoIndex ELSE Masked(t, pos + Min(KeyBits(t, hash, k, pos))))

\* find_mut that counts a modification whatever the meta byte was
Stamp_always_counts(t, index) ==
    set_meta([t EXCEPT !.mod_counter = t.mod_counter + 1], index, MODIFIED_TOUCHED)

\* The effect of find_mut on the bucket it found
Stamp(t, index) ==
    set_meta([t EXCEPT !.mod_counter = IF is_safe(t.meta[index])
                                       THEN t.mod_counter + 1 ELSE t.mod_counter],
             index, MODIFIED_TOUCHED)

find_mut(t, hash, k) ==
    With(Lookup(t, hash, k), LAMBDA index :
    [t |-> IF index = NoIndex THEN t ELSE Stamp(t, index), index |-> index])

\* find that stamps SAFE_TOUCHED whatever the meta byte was
Touch_any_meta(t, index) == set_meta(t, index, SAFE_TOUCHED)

\* The effect of find on the bucket it found
Touch(t, index) ==
    IF is_safe(t.meta[index]) THEN set_meta(t, index, SAFE_TOUCHED) ELSE t

find(t, hash, k) ==
    With(Lookup(t, hash, k), LAMBDA index :
    [t |-> IF index = NoIndex THEN t ELSE Touch(t, index), index |-> index])

above_mod_threshold(t) == t.mod_counter >= t.mod_limit
len(t) == t.items
capacity(t) == t.items + t.growth_left

\* RawIterModified: the bucket indexes the iterator yields, in order.  It
\* loads the aligned groups that start below meta_end = buckets and yields
\* every byte of them whose top bit is set.
RECURSIVE Sorted(_)
Sorted(S) == IF S = {} THEN <<>> ELSE <<Min(S)>> \o Sorted(S \ {Min(S)})

ModifiedIndexes(t) ==
    Sorted(UNION {{g + bit : bit \in match_modified(Load(t.meta, g))} :
                  g \in {x \in 0 .. t.bucket_mask : x % WIDTH = 0}})

\* iter_modified followed by n calls of next: mod_counter is zeroed when the
\* iterator is made, and each yield writes SAFE to the primary meta byte only
RECURSIVE MarkYielded(_, _, _)
MarkYielded(m, seq, n) ==
    IF n = 0 THEN m
    ELSE MarkYielded([m EXCEPT ![seq[1]] = SAFE], Tail(seq), n - 1)

\* iter_modified whose iterator forgets to write SAFE to what it yields
iter_modified_keeps_meta(t, n) == [t EXCEPT !.mod_counter = 0]

iter_modified(t, n) ==
    [t EXCEPT !.mod_counter = 0,
              !.meta = MarkYielded(t.meta, ModifiedIndexes(t), n)]

\* ------------------------------------------------- encoding and the store
None == <<>>
Some(x) == <<x>>

\* prost's encoding of a u64 message: nothing for the default 0, else the
\* tag byte of field 1 (varint) followed by the value (below 128: one byte)
into_raw(x) == IF x = 0 THEN <<>> ELSE <<8, x>>
from_raw(bytes) == IF bytes = <<>> THEN 0 ELSE bytes[2]

\* The raw key a ValueIndex is made with
ValueKey == <<95, 99>>
RawKeys == {into_raw(k) : k \in Keys} \cup {ValueKey}

\* Backend::put: st is the map raw key -> raw value; ok is the answer of
\* the database to this call
Backend_put(st, raw_key, raw_value, ok) ==
    IF ok THEN [st EXCEPT ![raw_key] = Some(raw_value)] ELSE st

\* Backend::get of a call the database answered
Backend_get(st, raw_key) == st[raw_key]

\* RawStore::put of a key and a value
RawStore_put(st, k, v, ok) == Backend_put(st, into_raw(k), into_raw(v), ok)

\* RawStore::get of a call the database answered: Ok(None) or Ok(Some(v))
RawStore_get(st, k) ==
    With(Backend_get(st, into_raw(k)), LAMBDA raw_opt :
         IF raw_opt = None THEN None ELSE Some(from_raw(raw_opt[1])))

\* usize::to_string: the decimal digits, most significant first
RECURSIVE to_string(_)
to_string(n) == IF n < 10 THEN <<n>> ELSE Append(to_string(n \div 10), n % 10)

\* self.path.join(self.checkpoint_counter.to_string())
CheckpointPath(counter) == <<"path", to_string(counter)>>

\* create_checkpoint(&path): the directories afterwards
create_checkpoint(snaps, path, ok) == IF ok THEN Append(snaps, path) ELSE snaps

\* Backend::checkpoint that counts the attempts: the counter moves before
\* the snapshot is made
Backend_checkpoint_counts_attempts(counter, ok) == counter + 1

\* Backend::checkpoint: the counter moves only when the checkpoint was made
Backend_checkpoint(counter, ok) == IF ok THEN counter + 1 ELSE counter

is_cow(md) == md = "Cow"
is_lazy(md) == md = "Lazy"

\* ------------------------------------------------------------ hash index
\* The raw table of the index in the current state
Tbl ==
    [bucket_mask |-> bucket_mask, ctrl |-> ctrl, meta |-> meta, data |-> data,
     items |-> items, growth_left |-> growth_left, mod_counter |-> mod_counter,
     mod_limit |-> mod_limit, fault |-> fault]

\* What an operation leaves behind: the table, the store, what the caller
\* is handed, and whether an error of the store was dropped on the way
Outcome(t, st, ret, dropped) == [t |-> t, store |-> st, ret |-> ret, dropped |-> dropped]

\* evict_mod_bucket followed by  let _ = self.raw_store_put(key, value)
Spill(t, st, hash, putOk) ==
    With(evict_mod_bucket(t, hash), LAMBDA e :
    IF e.t.fault # "none" THEN Outcome(e.t, st, "unit", FALSE)
    ELSE IF e.kv = NoEntry THEN Outcome(Stop(e.t, "ub"), st, "unit", FALSE)
    ELSE Outcome(e.t, RawStore_put(st, e.kv[1], e.kv[2], putOk), "unit", ~putOk))

\* HashIndex::insert after find_mut missed
InsertMiss(t, st, hash, k, v, putOk) ==
    IF above_mod_threshold(t)
    THEN With(Spill(t, st, hash, putOk), LAMBDA s :
         IF s.t.fault # "none" THEN s
         ELSE Outcome(insert(s.t, hash, <<k, v>>), s.store, "unit", s.dropped))
    ELSE Outcome(insert(t, hash, <<k, v>>), st, "unit", FALSE)

\* HashIndex::insert that inserts without looking the key up
HashIndex_insert_no_lookup(t, st, k, v, putOk) == InsertMiss(t, st, make_hash(k), k, v, putOk)

\* HashIndex::insert
HashIndex_insert(t, st, k, v, putOk) ==
    With(find_mut(t, make_hash(k), k), LAMBDA f :
    IF f.index # NoIndex
    THEN Outcome([f.t EXCEPT !.data = [f.t.data EXCEPT ![f.index] = <<k, v>>]],
                 st, "unit", FALSE)
    ELSE InsertMiss(f.t, st, make_hash(k), k, v, putOk))

\* HashIndex::table_get: the table afterwards and the value found
table_get(t, k) ==
    With(find(t, make_hash(k), k), LAMBDA f :
    [t |-> f.t, ret |-> IF f.index = NoIndex THEN None ELSE Some(f.t.data[f.index][2])])

\* HashIndex::get after table_get missed and the store answered Some(v)
GetFromStore(t, st, k, v, putOk) ==
    With(HashIndex_insert(t, st, k, v, putOk), LAMBDA i :
    IF i.t.fault # "none" THEN Outcome(i.t, i.store, None, i.dropped)
    ELSE With(table_get(i.t, k), LAMBDA g : Outcome(g.t, i.store, g.ret, i.dropped)))

\* HashIndex::get; getOk and putOk are the answers of the store
HashIndex_get(t, st, k, getOk, putOk) ==
    With(table_get(t, k), LAMBDA g :
    IF g.ret # None THEN Outcome(g.t, st, g.ret, FALSE)
    ELSE IF ~getOk THEN Outcome(Stop(g.t, "panic"), st, None, FALSE)
    ELSE With(RawStore_get(st, k), LAMBDA entry_opt :
         IF entry_opt = None THEN Outcome(g.t, st, None, FALSE)
         ELSE GetFromStore(g.t, st, k, entry_opt[1], putOk)))

\* HashIndex::put
HashIndex_put(t, st, k, v, putOk) == HashIndex_insert(t, st, k, v, putOk)

\* The update function handed to rmw: the next value of the key's range
Bump(k, v) == IF v + 1 \in ValuesOf(k) THEN v + 1 ELSE 1

\* HashIndex::rmw on a resident key, after table_get_mut found index
RmwResident(t, st, k, index, putOk) ==
    With([t EXCEPT !.data = [t.data EXCEPT ![index] = <<k, Bump(k, t.data[index][2])>>]],
         LAMBDA t1 :
    IF above_mod_threshold(t1)
    THEN With(Spill(t1, st, make_hash(k), putOk), LAMBDA s :
              Outcome(s.t, s.store, TRUE, s.dropped))
    ELSE Outcome(t1, st, TRUE, FALSE))

\* HashIndex::rmw
HashIndex_rmw(t, st, k, getOk, putOk) ==
    With(find_mut(t, make_hash(k), k), LAMBDA f :
    IF f.index # NoIndex THEN RmwResident(f.t, st, k, f.index, putOk)
    ELSE IF getOk /\ RawStore_get(st, k) # None
    THEN With(HashIndex_insert(f.t, st, k, Bump(k, RawStore_get(st, k)[1]), putOk),
              LAMBDA i : Outcome(i.t, i.store, TRUE, i.dropped))
    ELSE Outcome(f.t, st, FALSE, FALSE))

\* The first n buckets of seq put to the store, in order
RECURSIVE PutAll(_, _, _, _)
PutAll(st, t, seq, n) ==
    IF n = 0 THEN st
    ELSE PutAll(RawStore_put(st, t.data[seq[1]][1], t.data[seq[1]][2], TRUE),
                t, Tail(seq), n - 1)

\* The loop of HashIndex::persist over the buckets seq; failAt = 0 when every
\* put succeeds, else the place in seq of the put that fails
PersistLoop(t, st, seq, failAt) ==
    IF \E j \in 1 .. Len(seq) : ~InRange(t, seq[j]) \/ t.data[seq[j]] = NoEntry
    THEN Outcome(Stop(t, "ub"), st, "Err", FALSE)
    ELSE IF failAt = 0
    THEN Outcome(iter_modified(t, Len(seq)), PutAll(st, t, seq, Len(seq)), "Ok", FALSE)
    ELSE Outcome(iter_modified(t, failAt), PutAll(st, t, seq, failAt - 1), "Err", FALSE)

\* HashIndex::persist
HashIndex_persist(t, st, md, failAt) ==
    IF is_lazy(md) THEN PersistLoop(t, st, ModifiedIndexes(t), failAt)
    ELSE Outcome(t, st, "Ok", FALSE)

\* ----------------------------------------------------------- value index
\* ValueIndex::setup over the store st: the store is kept, not read
ValueIndex_setup(st, md) == [data |-> Some(0), mode |-> md]

\* ValueIndex::persist: the store afterwards and the result
ValueIndex_persist(vi, st, ok) ==
    IF vi.data = None THEN [store |-> st, ret |-> "Ok"]
    ELSE [store |-> Backend_put(st, ValueKey, into_raw(vi.data[1]), ok),
          ret |-> IF ok THEN "Ok" ELSE "Err"]

ValueIndex_get(vi) == vi.data

\* ValueIndex::put that forwards to the store whatever the write mode
ValueIndex_put_any_mode(vi, st, v, ok) ==
    With([vi EXCEPT !.data = Some(v)], LAMBDA vi1 :
    [vi |-> vi1, store |-> ValueIndex_persist(vi1, st, ok).store, dropped |-> ~ok])

\* ValueIndex::put:  let _ = self.persist()  in Cow mode
ValueIndex_put(vi, st, v, ok) ==
    With([vi EXCEPT !.data = Some(v)], LAMBDA vi1 :
    [vi |-> vi1,
     store |-> IF is_cow(vi1.mode) THEN ValueIndex_persist(vi1, st, ok).store ELSE st,
     dropped |-> is_cow(vi1.mode) /\ ~ok])

\* The update function handed to ValueIndex::rmw
VBump(v) == (v + 1) % (NVals + 1)

\* ValueIndex::rmw that runs the closure twice
ValueIndex_rmw_twice(vi, st, ok) ==
    With(IF vi.data = None THEN vi
         ELSE [vi EXCEPT !.data = Some(VBump(VBump(vi.data[1])))], LAMBDA vi1 :
    [vi |-> vi1,
     store |-> IF vi.data # None /\ is_cow(vi1.mode)
               THEN ValueIndex_persist(vi1, st, ok).store ELSE st,
     ret |-> TRUE,
     dropped |-> vi.data # None /\ is_cow(vi1.mode) /\ ~ok])

\* ValueIndex::rmw
ValueIndex_rmw(vi, st, ok) ==
    With(IF vi.data = None THEN vi ELSE [vi EXCEPT !.data = Some(VBump(vi.data[1]))],
         LAMBDA vi1 :
    [vi |-> vi1,
     store |-> IF vi.data # None /\ is_cow(vi1.mode)
               THEN ValueIndex_persist(vi1, st, ok).store ELSE st,
     ret |-> TRUE,
     dropped |-> vi.data # None /\ is_cow(vi1.mode) /\ ~ok])

\* The value index in the current state
Val == [data |-> vdata, mode |-> vmode]

\* ------------------------------------------------------- initial states
\* HashIndex::new (md = "Lazy") / HashIndex::cow (md = "Cow") and
\* ValueIndex::new over a fresh, empty store
InitWith(cap, mod_factor, md, mayFail) ==
    /\ bucket_mask = with_capacity(cap, mod_factor).bucket_mask
    /\ mod_limit = with_capacity(cap, mod_factor).mod_limit
    /\ mode = md
    /\ ctrl = with_capacity(cap, mod_factor).ctrl
    /\ meta = with_capacity(cap, mod_factor).meta
    /\ data = with_capacity(cap, mod_factor).data
    /\ items = with_capacity(cap, mod_factor).items
    /\ growth_left = with_capacity(cap, mod_factor).growth_left
    /\ mod_counter = with_capacity(cap, mod_factor).mod_counter
    /\ fault = with_capacity(cap, mod_factor).fault
    /\ store = [rk \in RawKeys |-> None]
    /\ faulty = mayFail
    /\ shadow = [k \in Keys |-> None]
    /\ vdata = ValueIndex_setup([rk \in RawKeys |-> None], "Lazy").data
    /\ vmode = ValueIndex_setup([rk \in RawKeys |-> None], "Lazy").mode
    /\ checkpoint_counter = 0
    /\ snapshots = <<>>

InitIndex(md, mayFail) == \E cf \in Configs : InitWith(cf[1], cf[2], md, mayFail)

Init == InitIndex("Lazy", FALSE)

\* The answers the store can give to one call
Answers == IF faulty THEN BOOLEAN ELSE {TRUE}

\* The state after an operation of the hash index that left the table as
\* r.t and the store as r.store
Apply(r) ==
    /\ ctrl' = r.t.ctrl
    /\ meta' = r.t.meta
    /\ data' = r.t.data
    /\ items' = r.t.items
    /\ growth_left' = r.t.growth_left
    /\ mod_counter' = r.t.mod_counter
    /\ fault' = r.t.fault
    /\ store' = r.store
    /\ UNCHANGED <<bucket_mask, mod_limit, mode, faulty, vdata, vmode, checkpoint_counter,
                   snapshots>>

\* ---------------------------------------------------------- operations
Put(k, v) ==
    /\ fault = "none"
    /\ \E putOk \in Answers :
         /\ Apply(HashIndex_put(Tbl, store, k, v, putOk))
         /\ shadow' = [shadow EXCEPT ![k] = Some(v)]

Get(k) ==
    /\ fault = "none"
    /\ \E getOk \in Answers, putOk \in Answers :
         /\ Apply(HashIndex_get(Tbl, store, k, getOk, putOk))
         /\ UNCHANGED shadow

Rmw(k) ==
    /\ fault = "none"
    /\ \E getOk \in Answers, putOk \in Answers :
         /\ Apply(HashIndex_rmw(Tbl, store, k, getOk, putOk))
         /\ shadow' = IF shadow[k] = None THEN shadow
                      ELSE [shadow EXCEPT ![k] = Some(Bump(k, shadow[k][1]))]

Persist ==
    /\ fault = "none"
    /\ \E failAt \in (IF faulty THEN 0 .. Len(ModifiedIndexes(Tbl)) ELSE {0}) :
         /\ Apply(HashIndex_persist(Tbl, store, mode, failAt))
         /\ UNCHANGED shadow

Next ==
    \/ \E k \in Keys : \E v \in ValuesOf(k) : Put(k, v)
    \/ \E k \in Keys : Get(k)
    \/ \E k \in Keys : Rmw(k)
    \/ Persist

Spec == Init /\ [][Next]_vars

\* The same index over a store whose calls may fail
InitFail == InitIndex("Lazy", TRUE)

\* Under a failing store the workload leaves out the last key
FailKeys == {k \in Keys : 2 * k + 1 \in Keys}

NextFail ==
    \/ \E k \in FailKeys : \E v \in ValuesOf(k) : Put(k, v)
    \/ \E k \in FailKeys : Get(k)
    \/ \E k \in FailKeys : Rmw(k)
    \/ Persist

SpecFail == InitFail /\ [][NextFail]_vars

\* The index made by HashIndex::cow
InitCow == InitIndex("Cow", FALSE)
SpecCow == InitCow /\ [][Next]_vars

\* ------------------------------------------- operations of the value index
hvars == <<bucket_mask, mod_limit, mode, ctrl, meta, data, items, growth_left,
           mod_counter, faulty, fault, shadow>>

\* ValueIndex::new / ValueIndex::cow again, with the same key, over the
\* store as it is
ValueSetup(md) ==
    /\ vdata' = ValueIndex_setup(store, md).data
    /\ vmode' = ValueIndex_setup(store, md).mode
    /\ UNCHANGED <<hvars, store, checkpoint_counter, snapshots>>

ValuePut(v) ==
    \E ok \in Answers :
        /\ vdata' = ValueIndex_put(Val, store, v, ok).vi.data
        /\ store' = ValueIndex_put(Val, store, v, ok).store
        /\ UNCHANGED <<hvars, vmode, checkpoint_counter, snapshots>>

ValueRmw ==
    \E ok \in Answers :
        /\ vdata' = ValueIndex_rmw(Val, store, ok).vi.data
        /\ store' = ValueIndex_rmw(Val, store, ok).store
        /\ UNCHANGED <<hvars, vmode, checkpoint_counter, snapshots>>

ValuePersist ==
    \E ok \in Answers :
        /\ store' = ValueIndex_persist(Val, store, ok).store
        /\ UNCHANGED <<hvars, vdata, vmode, checkpoint_counter, snapshots>>

\* RawStore::checkpoint
Checkpoint ==
    /\ checkpoint_counter < MaxCheckpoints
    /\ \E ok \in Answers :
         /\ checkpoint_counter' = Backend_checkpoint(checkpoint_counter, ok)
         /\ snapshots' = create_checkpoint(snapshots, CheckpointPath(checkpoint_counter), ok)
    /\ UNCHANGED <<hvars, store, vdata, vmode>>

NextValue ==
    \/ \E md \in {"Lazy", "Cow"} : ValueSetup(md)
    \/ \E v \in 0 .. NVals : ValuePut(v)
    \/ ValueRmw
    \/ ValuePersist
    \/ Checkpoint

SpecValue == Init /\ [][NextValue]_vars

\* ------------------------------------------------------------ the claims
\* What a following get(&k) hands back after an operation that left r;
\* Stopped when the operation did not return
Stopped == <<-1>>
GetAfter(r, k) ==
    IF r.t.fault # "none" THEN Stopped
    ELSE HashIndex_get(r.t, r.store, k, TRUE, TRUE).ret

\* k is in neither the table nor the store
Absent(k) == Lookup(Tbl, make_hash(k), k) = NoIndex /\ RawStore_get(store, k) = None

\* The value of k before an operation: the resident one, else the stored one
Previous(k) ==
    IF Lookup(Tbl, make_hash(k), k) # NoIndex
    THEN data[Lookup(Tbl, make_hash(k), k)][2]
    ELSE RawStore_get(store, k)[1]

\* The number of full control bytes among the buckets
FullBuckets(t) == Cardinality({i \in 0 .. t.bucket_mask : is_full(t.ctrl[i])})

\* C1: on a lazy index over a store that never fails, after any sequence of
\* put, rmw, get and persist, get(&k) returns Some of the value most recently
\* written to k, and None for a key never written.
C1_UnboundedMap ==
    fault = "none" =>
        \A k \in Keys : HashIndex_get(Tbl, store, k, TRUE, TRUE).ret = shadow[k]

\* C2: in every reachable state, put(k, v) immediately followed by get(&k)
\* returns Some(&v).
C2_PutThenGet ==
    fault = "none" =>
        \A k \in Keys : \A v \in Values :
            GetAfter(HashIndex_put(Tbl, store, k, v, TRUE), k) = Some(v)

\* C3: after a successful persist() on a lazy index the store holds, for
\* every key ever written, the value most recently written by put or rmw.
C3_PersistStoresLatest ==
    fault = "none" =>
        With(HashIndex_persist(Tbl, store, mode, 0), LAMBDA p :
             p.ret = "Ok" /\ p.t.fault = "none" =>
                 \A k \in Keys : shadow[k] # None => RawStore_get(p.store, k) = shadow[k])

\* C4: rmw(k, f) returns false if and only if k is in neither the table nor
\* the store; otherwise it returns true and a following get(&k) returns f
\* applied once to the previous value of k.  The store answers as it may.
RmwResult(k, getOk, putOk) ==
    With(HashIndex_rmw(Tbl, store, k, getOk, putOk), LAMBDA r :
         /\ (r.ret = FALSE) <=> Absent(k)
         /\ r.ret = TRUE => GetAfter(r, k) = Some(Bump(k, Previous(k))))

C4_RmwResult ==
    fault = "none" =>
        \A k \in Keys : \A getOk \in Answers, putOk \in Answers : RmwResult(k, getOk, putOk)

\* C5: put(k, v1) followed by put(k, v2) makes get(&k) return Some(&v2), and
\* the second put leaves items unchanged.
PutTwice(k, v1, v2) ==
    With(HashIndex_put(Tbl, store, k, v1, TRUE), LAMBDA p1 :
    With(HashIndex_put(p1.t, p1.store, k, v2, TRUE), LAMBDA p2 :
         GetAfter(p2, k) = Some(v2) /\ len(p2.t) = len(p1.t)))

C5_PutTwice ==
    fault = "none" =>
        \A k \in Keys : \A v1 \in Values, v2 \in Values : PutTwice(k, v1, v2)

\* C6: on an index made by cow(), when put(k, v) returns the store holds v
\* under k, and when rmw(k, f) returns true the store holds the new value of
\* k, without any persist().
CowPut(k, v) ==
    With(HashIndex_put(Tbl, store, k, v, TRUE), LAMBDA p :
         p.t.fault = "none" => RawStore_get(p.store, k) = Some(v))

CowRmw(k) ==
    With(HashIndex_rmw(Tbl, store, k, TRUE, TRUE), LAMBDA r :
         r.t.fault = "none" /\ r.ret = TRUE =>
             RawStore_get(r.store, k) = Some(Bump(k, Previous(k))))

C6_CowForwards ==
    fault = "none" /\ is_cow(mode) =>
        \A k \in Keys : CowRmw(k) /\ \A v \in Values : CowPut(k, v)

\* C7: a value index in Cow mode, after put(v), reconstructed over the same
\* store without a persist, reads Some(&v) from get().
C7_WarmStart ==
    \A v \in 0 .. NVals :
        With(ValueIndex_put(ValueIndex_setup(store, "Cow"), store, v, TRUE), LAMBDA p :
             ValueIndex_get(ValueIndex_setup(p.store, "Cow")) = Some(v))

\* C8 as stated: after a successful persist() in lazy mode, mod_counter is 0
\* and the meta byte of every full bucket is SAFE.
C8_PersistAllSafe ==
    fault = "none" =>
        With(HashIndex_persist(Tbl, store, mode, 0), LAMBDA p :
             p.ret = "Ok" /\ p.t.fault = "none" =>
                 /\ p.t.mod_counter = 0
                 /\ \A i \in 0 .. bucket_mask : is_full(p.t.ctrl[i]) => p.t.meta[i] = SAFE)

\* C8 as amended: after a successful persist() in lazy mode, mod_counter is
\* 0 and the meta byte of every full bucket is clean: SAFE or SAFE_TOUCHED.
C8_PersistNoDirty ==
    fault = "none" =>
        With(HashIndex_persist(Tbl, store, mode, 0), LAMBDA p :
             p.ret = "Ok" /\ p.t.fault = "none" =>
                 /\ p.t.mod_counter = 0
                 /\ \A i \in 0 .. bucket_mask :
                        is_full(p.t.ctrl[i]) => p.t.meta[i] \in {SAFE, SAFE_TOUCHED})

\* A state in which persist() succeeds, writes a dirty bucket to the store
\* and resets it to SAFE, next to a full bucket that was and stays
\* SAFE_TOUCHED
C8_Witness ==
    /\ fault = "none"
    /\ With(HashIndex_persist(Tbl, store, mode, 0), LAMBDA p :
            /\ p.ret = "Ok" /\ p.t.fault = "none"
            /\ p.store # store
            /\ \E i \in 0 .. bucket_mask :
                   is_full(ctrl[i]) /\ is_modified(meta[i]) /\ p.t.meta[i] = SAFE
            /\ \E j \in 0 .. bucket_mask :
                   is_full(ctrl[j]) /\ meta[j] = SAFE_TOUCHED /\ p.t.meta[j] = SAFE_TOUCHED)

\* C9: in every reachable state items equals the number of control bytes of
\* buckets whose top bit is clear.
C9_LenExact == fault = "none" => len(Tbl) = FullBuckets(Tbl)

\* The results of a put and of an rmw that went well: () and a bool
PutReturns == {"unit"}
RmwReturns == BOOLEAN

\* C10: when the store write of a dirty-eviction spill fails inside put or
\* rmw, the caller of put or rmw is handed the error, not a result of a call
\* that went well.
C10_SpillErrorPropagates ==
    fault = "none" =>
        \A k \in Keys :
            /\ \A v \in Values :
                   With(HashIndex_put(Tbl, store, k, v, FALSE), LAMBDA p :
                        p.dropped => p.ret \notin PutReturns)
            /\ With(HashIndex_rmw(Tbl, store, k, TRUE, FALSE), LAMBDA r :
                    r.dropped => r.ret \notin RmwReturns)

\* The number of full buckets whose meta byte is dirty
DirtyFull(t) ==
    Cardinality({i \in 0 .. t.bucket_mask : is_full(t.ctrl[i]) /\ is_modified(t.meta[i])})

\* Every bucket that was dirty in the current state is, after an operation
\* that left r, either held by the store or still resident and dirty
DirtyKept(r) ==
    \A i \in 0 .. bucket_mask :
        is_full(ctrl[i]) /\ is_modified(meta[i]) =>
            \/ RawStore_get(r.store, data[i][1]) = Some(data[i][2])
            \/ /\ Lookup(r.t, make_hash(data[i][1]), data[i][1]) # NoIndex
               /\ is_modified(r.t.meta[Lookup(r.t, make_hash(data[i][1]), data[i][1])])

\* The table is valid after a failed store write
ValidAfter(r) ==
    r.t.fault = "none" => r.t.mod_counter = DirtyFull(r.t) /\ DirtyKept(r)

\* C11: when a store write fails during persist() or during the spill of a
\* dirty eviction, mod_counter still equals the number of dirty full buckets
\* and every bucket not written to the store is still resident and dirty.
C11_WriteFailureKeepsState ==
    fault = "none" /\ mod_counter = DirtyFull(Tbl) =>
        /\ \A failAt \in 1 .. Len(ModifiedIndexes(Tbl)) :
               ValidAfter(HashIndex_persist(Tbl, store, mode, failAt))
        /\ \A k \in Keys : \A v \in ValuesOf(k) :
               With(HashIndex_put(Tbl, store, k, v, FALSE), LAMBDA p :
                    p.dropped => ValidAfter(p))

\* C12: when the store answers a read with an error during a memory miss,
\* get and rmw panic; neither returns a result as if the key were absent.
C12_ReadErrorPanics ==
    fault = "none" =>
        \A k \in Keys :
            Lookup(Tbl, make_hash(k), k) = NoIndex =>
                /\ HashIndex_get(Tbl, store, k, FALSE, TRUE).t.fault = "panic"
                /\ HashIndex_rmw(Tbl, store, k, FALSE, TRUE).t.fault = "panic"

\* --------------------------------------------- the derived checkpoint
\* Backend::checkpoint: what the caller is handed
Backend_checkpoint_result(ok) == IF ok THEN "Ok" ELSE "Checkpoint"

\* The fields of the struct of the derive test, in declaration order, and
\* the call that ends the generated routine
FieldCalls == <<"watermark", "counters">>
AllCalls == Append(FieldCalls, "checkpoint")

\* What the generated routine leaves: the value index is only read, t is the
\* hash index's table, calls the calls made, in order
Walked(t, st, counter, snaps, ret, n) ==
    [t |-> t, store |-> st, counter |-> counter, snapshots |-> snaps, ret |-> ret,
     calls |-> SubSeq(AllCalls, 1, n)]

\* The generated routine with  let _ = self.field.persist();  in place of
\* self.field.persist()?;  an error of a persist is dropped and the walk
\* goes on to the store's checkpoint
StreamingState_checkpoint_goes_on(vi, t, st, md, counter, snaps, vOk, failAt, cpOk) ==
    With(ValueIndex_persist(vi, st, vOk), LAMBDA w :
    With(HashIndex_persist(t, w.store, md, failAt), LAMBDA c :
         Walked(c.t, c.store, Backend_checkpoint(counter, cpOk),
                create_checkpoint(snaps, CheckpointPath(counter), cpOk),
                Backend_checkpoint_result(cpOk), 3)))

\* The generated checkpoint(raw_store) of
\*   struct StreamingState { watermark: ValueIndex, counters: HashIndex }:
\*   self.watermark.persist()?; self.counters.persist()?;
\*   raw_store.borrow_mut().checkpoint()
\* vOk, failAt and cpOk are the answers of the store to the three calls
StreamingState_checkpoint(vi, t, st, md, counter, snaps, vOk, failAt, cpOk) ==
    With(ValueIndex_persist(vi, st, vOk), LAMBDA w :
    IF w.ret # "Ok" THEN Walked(t, w.store, counter, snaps, w.ret, 1)
    ELSE With(HashIndex_persist(t, w.store, md, failAt), LAMBDA c :
         IF c.ret # "Ok" THEN Walked(c.t, c.store, counter, snaps, c.ret, 2)
         ELSE Walked(c.t, c.store, Backend_checkpoint(counter, cpOk),
                     create_checkpoint(snaps, CheckpointPath(counter), cpOk),
                     Backend_checkpoint_result(cpOk), 3)))

\* The state after the generated checkpoint left r
ApplyWalk(r) ==
    /\ ctrl' = r.t.ctrl
    /\ meta' = r.t.meta
    /\ data' = r.t.data
    /\ items' = r.t.items
    /\ growth_left' = r.t.growth_left
    /\ mod_counter' = r.t.mod_counter
    /\ fault' = r.t.fault
    /\ store' = r.store
    /\ checkpoint_counter' = r.counter
    /\ snapshots' = r.snapshots
    /\ UNCHANGED <<bucket_mask, mod_limit, mode, faulty, vdata, vmode, shadow>>

\* The places at which the persist of the hash index may fail: 0 for nowhere
FailPlaces == IF faulty THEN 0 .. Len(ModifiedIndexes(Tbl)) ELSE {0}

StateCheckpoint ==
    /\ fault = "none"
    /\ checkpoint_counter < MaxCheckpoints
    /\ \E vOk \in Answers, cpOk \in Answers, failAt \in FailPlaces :
         ApplyWalk(StreamingState_checkpoint(Val, Tbl, store, mode, checkpoint_counter, snapshots,
                                             vOk, failAt, cpOk))

\* The keys the struct's workload puts into counters
StateKeys == {k \in Keys : k <= 1}

\* state.counters().put(k, v), state.watermark().put(v),
\* state.checkpoint(raw_store) and raw_store.checkpoint() on a struct whose
\* store may fail
NextState ==
    \/ \E k \in StateKeys : \E v \in ValuesOf(k) : Put(k, v)
    \/ \E v \in 0 .. NVals : ValuePut(v)
    \/ StateCheckpoint
    \/ Checkpoint

SpecState == InitFail /\ [][NextState]_vars

\* What the generated checkpoint does when the store answers vOk to the
\* persist of watermark, fails the persist of counters at failAt (0: nowhere)
\* and answers cpOk to its own checkpoint
WalkResult(vOk, failAt, cpOk) ==
    With(StreamingState_checkpoint(Val, Tbl, store, mode, checkpoint_counter, snapshots,
                                   vOk, failAt, cpOk), LAMBDA r :
    r.t.fault = "none" =>
        /\ r.calls = SubSeq(AllCalls, 1, Len(r.calls))
        /\ ~vOk =>
               /\ r.ret = ValueIndex_persist(Val, store, FALSE).ret
               /\ r.calls = <<"watermark">>
               /\ r.t = Tbl /\ r.store = store /\ r.counter = checkpoint_counter
               /\ r.snapshots = snapshots
        /\ vOk /\ failAt # 0 =>
               /\ r.ret = HashIndex_persist(Tbl, store, mode, failAt).ret
               /\ r.calls = <<"watermark", "counters">>
               /\ r.store[ValueKey] = Some(into_raw(vdata[1]))
               /\ r.counter = checkpoint_counter
               /\ r.snapshots = snapshots
        /\ vOk /\ failAt = 0 =>
               /\ r.calls = AllCalls
               /\ r.t = HashIndex_persist(Tbl, store, mode, 0).t
               /\ r.store = HashIndex_persist(Tbl, ValueIndex_persist(Val, store, TRUE).store,
                                              mode, 0).store
               /\ r.ret = (IF cpOk THEN "Ok" ELSE "Checkpoint")
               /\ r.counter = (IF cpOk THEN checkpoint_counter + 1 ELSE checkpoint_counter)
               /\ r.snapshots = (IF cpOk
                                 THEN Append(snapshots, CheckpointPath(checkpoint_counter))
                                 ELSE snapshots))

\* C13: the generated checkpoint persists the fields in declaration order and
\* then calls the store's checkpoint; the first persist error is returned at
\* once, with no later field persisted and no checkpoint of the store; an
\* error of the store's checkpoint is the result.
C13_CheckpointWalk ==
    fault = "none" =>
        \A vOk \in Answers, cpOk \in Answers, failAt \in FailPlaces :
            WalkResult(vOk, failAt, cpOk)

\* After a first checkpoint went through, a state with dirty buckets in
\* counters where the persist of counters fails and ends the walk
C13_Witness ==
    /\ fault = "none"
    /\ checkpoint_counter >= 1
    /\ \E failAt \in FailPlaces :
          /\ failAt # 0
          /\ StreamingState_checkpoint(Val, Tbl, store, mode, checkpoint_counter, snapshots,
                                       TRUE, failAt, TRUE).calls = FieldCalls

\* A store that holds nothing: every write made over it shows
Blank == [rk \in RawKeys |-> None]

\* The raw keys an operation wrote, seen in the store r.store it left when
\* started over the blank store
Written(r) == {rk \in RawKeys : r.store[rk] # None}

\* The raw (key, value) pairs of the dirty full buckets of t
DirtyPairs(t) ==
    {<<into_raw(t.data[i][1]), into_raw(t.data[i][2])>> :
        i \in {j \in 0 .. t.bucket_mask : is_full(t.ctrl[j]) /\ is_modified(t.meta[j])}}

\* r wrote exactly one pair, the one of a bucket that was dirty in the
\* current state
OneSpill(r) ==
    /\ Cardinality(Written(r)) = 1
    /\ \E rk \in Written(r) : <<rk, r.store[rk][1]>> \in DirtyPairs(Tbl)

\* The store writes of put(k, v) in the current state
PutWrites(k, v) ==
    With(HashIndex_put(Tbl, Blank, k, v, TRUE), LAMBDA p :
         IF Lookup(Tbl, make_hash(k), k) = NoIndex /\ mod_counter >= mod_limit
         THEN OneSpill(p)
         ELSE Written(p) = {})

\* The store writes of get(&k) in the current state: none on a hit; on a
\* miss whatever the store holds afterwards and did not hold before is the
\* pair of a bucket that was dirty
GetWrites(k) ==
    IF Lookup(Tbl, make_hash(k), k) # NoIndex
    THEN Written(HashIndex_get(Tbl, Blank, k, TRUE, TRUE)) = {}
    ELSE With(HashIndex_get(Tbl, store, k, TRUE, TRUE), LAMBDA g :
         \A rk \in RawKeys :
             g.store[rk] # store[rk] => <<rk, g.store[rk][1]>> \in DirtyPairs(Tbl))

\* C14: in Lazy mode the only store writes of put, get and rmw are spills of
\* dirty evictions: a put of a key that is not resident writes exactly one
\* dirty bucket's pair when mod_counter >= mod_limit and nothing otherwise; a
\* put of a resident key and a get that hits memory write nothing.
C14_OnlySpillsWrite ==
    fault = "none" /\ is_lazy(mode) =>
        \A k \in Keys : GetWrites(k) /\ \A v \in ValuesOf(k) : PutWrites(k, v)

\* C15: two consecutive persist() calls on a lazy index are equivalent to
\* one: the second writes nothing to the store and leaves the control bytes,
\* the meta bytes, items, growth_left and mod_counter as the first left them.
C15_PersistTwice ==
    fault = "none" /\ is_lazy(mode) =>
        With(HashIndex_persist(Tbl, store, mode, 0), LAMBDA p1 :
             p1.ret = "Ok" /\ p1.t.fault = "none" =>
                 With(HashIndex_persist(p1.t, Blank, mode, 0), LAMBDA p2 :
                      p2.ret = "Ok" /\ Written(p2) = {} /\ p2.t = p1.t))

\* A state with two dirty buckets, which the first persist() writes to the
\* store and resets
C15_Witness ==
    /\ fault = "none" /\ is_lazy(mode)
    /\ Len(ModifiedIndexes(Tbl)) >= 2
    /\ With(HashIndex_persist(Tbl, store, mode, 0), LAMBDA p1 :
            p1.ret = "Ok" /\ p1.t.fault = "none" /\ p1.store # store /\ p1.t.meta # meta)

\* The blank store after one write of value v under the value index's key
OneWrite(v) == [Blank EXCEPT ![ValueKey] = Some(into_raw(v))]

\* C16: put(v) and rmw(f) of a value index write the value they leave to the
\* store under the index's key in Cow mode and write nothing in Lazy mode;
\* persist() writes the current value under that key in both modes.
C16_ValueForwarding ==
    /\ \A v \in 0 .. NVals :
           ValueIndex_put(Val, Blank, v, TRUE).store
               = (IF is_cow(vmode) THEN OneWrite(v) ELSE Blank)
    /\ ValueIndex_rmw(Val, Blank, TRUE).store
           = (IF is_cow(vmode) THEN OneWrite(VBump(vdata[1])) ELSE Blank)
    /\ ValueIndex_persist(Val, Blank, TRUE).store = OneWrite(vdata[1])

\* A Cow value index whose last put or rmw left a value other than the
\* default, which the store holds under the index's key
C16_Witness ==
    /\ is_cow(vmode)
    /\ vdata # Some(0)
    /\ store[ValueKey] = Some(into_raw(vdata[1]))

\* C17: for a value index in either write mode, put(v) followed by get()
\* returns Some(&v); rmw(f) applies f exactly once to the value in memory and
\* returns true, and a following get() returns the mutated value.
C17_ValuePutGetRmw ==
    \A ok \in BOOLEAN :
        /\ \A v \in 0 .. NVals :
               ValueIndex_get(ValueIndex_put(Val, store, v, ok).vi) = Some(v)
        /\ ValueIndex_rmw(Val, store, ok).ret = TRUE
        /\ ValueIndex_get(ValueIndex_rmw(Val, store, ok).vi) = Some(VBump(vdata[1]))

\* A lazy value index that holds the last value of the workload, which rmw
\* takes back to the first
C17_Witness ==
    /\ is_lazy(vmode)
    /\ ValueIndex_get(Val) = Some(NVals)
    /\ ValueIndex_get(ValueIndex_rmw(Val, store, TRUE).vi) = Some(0)

\* C18: the k-th successful checkpoint() of a store instance, k counted from
\* 0, snapshots to the directory {store_path}/k; a failed checkpoint()
\* returns a Checkpoint error and leaves the counter unchanged, so that the
\* directories made are numbered 0, 1, 2, ... in the order they were made.
C18_CheckpointDirs ==
    /\ Len(snapshots) = checkpoint_counter
    /\ \A k \in 0 .. Len(snapshots) - 1 : snapshots[k + 1] = <<"path", to_string(k)>>
    /\ Backend_checkpoint(checkpoint_counter, FALSE) = checkpoint_counter
    /\ Backend_checkpoint_result(FALSE) = "Checkpoint"
    /\ create_checkpoint(snapshots, CheckpointPath(checkpoint_counter), FALSE) = snapshots

\* A store that may fail its calls, after three checkpoints went through
C18_Witness ==
    /\ faulty
    /\ Len(snapshots) = 3
    /\ snapshots[3] = CheckpointPath(2)

\* ------------------------------------- construction with any arguments
\* HashIndex::new or HashIndex::cow with a capacity and a mod_factor of the
\* ranges above; a construction that panics leaves no index to work on
InitNew ==
    \E cap \in Capacities, mod_factor \in Factors, md \in {"Lazy", "Cow"} :
        InitWith(cap, mod_factor, md, FALSE)

NextNew ==
    \/ \E k \in StateKeys : \E v \in ValuesOf(k) : Put(k, v)
    \/ \E k \in StateKeys : Get(k)
    \/ Persist

SpecNew == InitNew /\ [][NextNew]_vars

\* C19: construction with mod_factor <= 0 or mod_factor > 0.9 is rejected,
\* no index is produced; every index produced has 0 < mod_factor <= 0.9.
C19_ModFactorChecked ==
    /\ \A cap \in Capacities, mod_factor \in Factors :
           (mod_factor <= 0 \/ mod_factor > 9) <=> with_capacity(cap, mod_factor).fault # "none"
    /\ fault = "none" =>
           \E cap \in Capacities, mod_factor \in Factors :
               /\ 0 < mod_factor /\ mod_factor <= 9
               /\ bucket_mask = try_with_capacity(cap, mod_factor).bucket_mask
               /\ mod_limit = try_with_capacity(cap, mod_factor).mod_limit

\* The state a rejected construction leaves: the constructor panicked, for a
\* capacity and a mod_factor above 0.9 that would otherwise have given this
\* state a table
C19_Witness ==
    /\ fault = "panic"
    /\ items = 0
    /\ \E cap \in Capacities \ {0}, mod_factor \in Factors :
          /\ mod_factor > 9
          /\ with_capacity(cap, mod_factor).bucket_mask = bucket_mask
          /\ with_capacity_unchecked(cap, mod_factor).bucket_mask # bucket_mask

\* The table and the store at the moment HashIndex::insert, having missed
\* k, calls RawTable::insert: after the spill of a dirty eviction, if any
AtInsert(k) ==
    IF above_mod_threshold(Tbl) THEN Spill(Tbl, store, make_hash(k), TRUE)
    ELSE Outcome(Tbl, store, "unit", FALSE)

\* Bucket index of table a.t is one safe eviction may erase: a full bucket
\* with clean meta whose pair the store a.store holds
SafeToErase(a, index) ==
    /\ index # NoIndex /\ index # NoBit /\ InRange(a.t, index)
    /\ is_full(a.t.ctrl[index])
    /\ a.t.meta[index] \in {SAFE, SAFE_TOUCHED}
    /\ RawStore_get(a.store, a.t.data[index][1]) = Some(a.t.data[index][2])

\* The safe eviction of RawTable::insert for a key k that is not resident
SafeEviction(k) ==
    With(AtInsert(k), LAMBDA a :
         a.t.fault = "none" /\ a.t.growth_left = 0 =>
             /\ SafeToErase(a, SafeVictim(a.t, make_hash(k)))
             /\ len(clear_safe_bucket(a.t, make_hash(k))) = len(a.t) - 1)

\* C20: whenever insert runs with growth_left == 0, safe eviction erases
\* exactly one bucket, which is full, has meta SAFE or SAFE_TOUCHED and whose
\* key the store holds with the bucket's value; it never takes an EMPTY or
\* DELETED slot and never erases a dirty bucket.
C20_SafeEvictionLosesNothing ==
    fault = "none" =>
        \A k \in Keys : Lookup(Tbl, make_hash(k), k) = NoIndex => SafeEviction(k)

\* C21: in every reachable state mod_counter equals the number of full
\* buckets whose meta byte has its top bit set, after any sequence of put,
\* get, rmw and persist, evictions included.
C21_ModCounterExact == fault = "none" => mod_counter = DirtyFull(Tbl)

\* The index of the trailing replica of the byte of bucket i, as set_ctrl
\* and set_meta compute it: i + buckets in a table of at least WIDTH
\* buckets, WIDTH + i in a smaller one
ReplicaIndex(t, i) == Masked(t, i - WIDTH) + WIDTH

\* The buckets whose bytes have a replica: the first WIDTH ones
Replicated(t) == {i \in 0 .. t.bucket_mask : i < WIDTH}

\* C22: in every reachable state and for every bucket the trailing replica
\* agrees with the primary byte on both streams, control and meta, for every
\* table size and after every operation, persist() included.
C22_ReplicasAgree ==
    fault = "none" =>
        \A i \in Replicated(Tbl) :
            /\ ctrl[i] = ctrl[ReplicaIndex(Tbl, i)]
            /\ meta[i] = meta[ReplicaIndex(Tbl, i)]

\* The ceiling is not breached in the table an operation left
WithinCeiling(r) == r.t.fault = "none" => r.t.mod_counter <= r.t.mod_limit

\* C23: after every put and every rmw on a hash index returns, mod_counter
\* is at most mod_limit, also when the put replaced the value of a resident
\* clean key in place.
C23_CeilingRestored ==
    fault = "none" =>
        \A k \in Keys :
            /\ WithinCeiling(HashIndex_rmw(Tbl, store, k, TRUE, TRUE))
            /\ \A v \in ValuesOf(k) : WithinCeiling(HashIndex_put(Tbl, store, k, v, TRUE))

\* The table in which RawTable::insert looks for a slot: after the safe
\* eviction, if growth_left was 0
AtFindSlot(t, hash) == IF t.growth_left = 0 THEN clear_safe_bucket(t, hash) ELSE t

\* The slot RawTable::insert obtains in table t is a bucket of the table
\* whose control byte is EMPTY or DELETED
SlotFree(t, hash) ==
    t.fault = "none" =>
        /\ find_insert_slot(t, hash) \in 0 .. t.bucket_mask
        /\ is_special(t.ctrl[find_insert_slot(t, hash)])

\* C24: for any index built by new or cow and any sequence of put, get, rmw
\* and persist, no operation of the raw table stops at unreachable!() or
\* uses a bucket index outside the table, and insert always obtains a slot
\* below buckets whose control byte is EMPTY or DELETED.
C24_OperationsTotal ==
    /\ fault = "none"
    /\ \A k \in Keys :
           Lookup(Tbl, make_hash(k), k) = NoIndex /\ AtInsert(k).t.fault = "none" =>
               SlotFree(AtFindSlot(AtInsert(k).t, make_hash(k)), make_hash(k))

\* The table at the moment rmw, having found k resident and run the
\* closure, consults the ceiling
AtRmwCheck(k) == find_mut(Tbl, make_hash(k), k).t

\* The table in which put, get or rmw on key k calls evict_mod_bucket; none,
\* shown as the empty set, when the operation makes no such call
EvictCalls(k) ==
    IF Lookup(Tbl, make_hash(k), k) = NoIndex
    THEN (IF above_mod_threshold(Tbl) THEN {Tbl} ELSE {})
    ELSE (IF above_mod_threshold(AtRmwCheck(k)) THEN {AtRmwCheck(k)} ELSE {})

\* What a call of evict_mod_bucket on table t that returns hands back: a
\* bucket that was full and dirty in t, left SAFE, with mod_counter one less
ReturnsDirty(t, hash) ==
    With(evict_mod_bucket(t, hash), LAMBDA e :
         e.t.fault = "none" =>
             /\ InRange(t, e.index)
             /\ is_full(t.ctrl[e.index])
             /\ t.meta[e.index] \in {MODIFIED, MODIFIED_TOUCHED}
             /\ e.kv = t.data[e.index]
             /\ e.t.meta[e.index] = SAFE
             /\ e.t.mod_counter = t.mod_counter - 1)

\* C25: every call of evict_mod_bucket returns a bucket that is full and
\* whose meta was MODIFIED or MODIFIED_TOUCHED at the time of the call; on
\* return the bucket's meta is SAFE and mod_counter is one less than before.
C25_EvictReturnsDirty ==
    fault = "none" =>
        \A k \in Keys : \A t \in EvictCalls(k) : ReturnsDirty(t, make_hash(k))

C25_Witness ==
    /\ fault = "none"
    /\ \E k \in Keys : \E t \in EvictCalls(k) :
           /\ evict_mod_bucket(t, make_hash(k)).t.fault = "none"
           /\ t.growth_left = 0

\* C26: every call the index makes to evict_mod_bucket happens with
\* mod_counter > 0 and at least one full bucket whose meta is dirty.
C26_EvictHasDirty ==
    fault = "none" =>
        \A k \in Keys : \A t \in EvictCalls(k) :
            t.mod_counter > 0 /\ DirtyFull(t) >= 1

\* C27: in every reachable state items + growth_left is at most the
\* effective capacity of the table (buckets - 1 up to 8 buckets, 7/8 of the
\* buckets above), and so is the number of full buckets.
C27_LoadCeiling ==
    fault = "none" =>
        /\ items + growth_left <= bucket_mask_to_capacity(bucket_mask)
        /\ FullBuckets(Tbl) <= bucket_mask_to_capacity(bucket_mask)

\* Every key a full bucket of t holds is found by find and by find_mut
AllFound(t) ==
    t.fault = "none" =>
        \A i \in 0 .. t.bucket_mask :
            is_full(t.ctrl[i]) =>
                /\ t.data[i] # NoEntry
                /\ find(t, make_hash(t.data[i][1]), t.data[i][1]).index # NoIndex
                /\ find_mut(t, make_hash(t.data[i][1]), t.data[i][1]).index # NoIndex

\* Key k is not resident and its insert runs the safe eviction
SafeEvictionDue(k) ==
    /\ Lookup(Tbl, make_hash(k), k) = NoIndex
    /\ AtInsert(k).t.fault = "none"
    /\ AtInsert(k).t.growth_left = 0

RawConfigs == {<<8, 5>>, <<28, 9>>}

\* The longest run of buckets the workload fills, the most gaps that
\* erase_by_index leaves in it at a time, and the most inserts of a run
RunLen == 17
MaxHoles == 2
MaxInserts == 18

\* The keys of the workload in the order they are inserted.  In the table of
\* 16 buckets four keys that all start their probe at bucket 0; in the table
\* of 32 buckets the keys that start at the buckets 0, 1, 2, ...
Workload(mask) ==
    IF mask < 16 THEN [n \in 1 .. 4 |-> 16 * (n - 1)]
    ELSE [n \in 1 .. RunLen |-> (29 * (n - 1)) % 32]

\* The keys the full buckets of t hold
ResidentKeys(t) == {t.data[i][1] : i \in {j \in 0 .. t.bucket_mask : is_full(t.ctrl[j])}}

\* The places of the workload whose key is not resident
NotResident(t) ==
    {n \in 1 .. Len(Workload(t.bucket_mask)) : Workload(t.bucket_mask)[n] \notin ResidentKeys(t)}

\* The highest full bucket of t, -1 in an empty table
HighestFull(t) == Max({-1} \cup {j \in 0 .. t.bucket_mask : is_full(t.ctrl[j])})

\* The number of gaps: buckets below the highest full one that are not full
Holes(t) == HighestFull(t) + 1 - Cardinality({j \in 0 .. t.bucket_mask : is_full(t.ctrl[j])})

InitRaw == \E cf \in RawConfigs : InitWith(cf[1], cf[2], "Lazy", FALSE)

\* RawTable::insert of the first key of the workload that is not resident
RawInsert ==
    /\ fault = "none"
    /\ mod_counter < MaxInserts
    /\ NotResident(Tbl) # {}
    /\ With(Workload(bucket_mask)[Min(NotResident(Tbl))], LAMBDA k :
            Apply([t |-> insert(Tbl, make_hash(k), <<k, 1>>), store |-> store]))
    /\ UNCHANGED shadow

\* RawTable::erase_by_index on a full bucket
RawErase(index) ==
    /\ fault = "none"
    /\ InRange(Tbl, index) /\ is_full(ctrl[index])
    /\ index = HighestFull(Tbl) \/ Holes(Tbl) < MaxHoles
    /\ Apply([t |-> erase_by_index(Tbl, index), store |-> store])
    /\ UNCHANGED shadow

\* RawTable::find_mut of a key of the workload
RawFindMut(n) ==
    /\ fault = "none"
    /\ n \in 1 .. Len(Workload(bucket_mask))
    /\ Apply([t |-> find_mut(Tbl, make_hash(Workload(bucket_mask)[n]), Workload(bucket_mask)[n]).t,
              store |-> store])
    /\ UNCHANGED shadow

NextRaw ==
    \/ RawInsert
    \/ \E index \in 0 .. bucket_mask : RawErase(index)
    \/ RawFindMut(1)

SpecRaw == InitRaw /\ [][NextRaw]_vars

\* The full buckets of the table in the current state
FullIndexes == {i \in 0 .. bucket_mask : is_full(ctrl[i])}

\* The number of EMPTY bytes among the WIDTH control bytes that end at
\* bucket index and among the WIDTH that start at it
EmptyBytes(t, index) ==
    Cardinality({j \in 0 .. (WIDTH - 1) : t.ctrl[Masked(t, index - WIDTH) + j] = EMPTY})
        + Cardinality({j \in 0 .. (WIDTH - 1) : t.ctrl[index + j] = EMPTY})

\* The number of bytes other than EMPTY in a row just before bucket index,
\* and from bucket index on, each counted up to WIDTH
RunBefore(t, index) ==
    Max({n \in 0 .. WIDTH :
            \A j \in 1 .. n : t.ctrl[Masked(t, index - WIDTH) + WIDTH - j] # EMPTY})
RunFrom(t, index) ==
    Max({n \in 0 .. WIDTH : \A j \in 0 .. (n - 1) : t.ctrl[index + j] # EMPTY})

\* erase_by_index(index) leaves byte c in the control byte of the bucket, and
\* growth_left one higher exactly if c is EMPTY; items is one lower
ErasesTo(index, c) ==
    With(erase_by_index(Tbl, index), LAMBDA r :
         /\ r.fault = "none"
         /\ r.ctrl[index] = c
         /\ r.growth_left = (IF c = EMPTY THEN growth_left + 1 ELSE growth_left)
         /\ r.items = items - 1)

\* C29 as stated: erase_by_index(i) sets the control byte to EMPTY and
\* increments growth_left when the number of EMPTY bytes among the W control
\* bytes ending at i plus the number among the W bytes starting at i is >= W,
\* and sets it to DELETED with growth_left unchanged otherwise; items
\* decreases by one in both cases.
C29_EraseByEmptyCount ==
    fault = "none" =>
        \A i \in FullIndexes :
            ErasesTo(i, IF EmptyBytes(Tbl, i) >= WIDTH THEN EMPTY ELSE DELETED)

\* C29 amended: erase_by_index(i) sets the control byte to DELETED with
\* growth_left unchanged when the bytes other than EMPTY in a row just before
\* i and from i on number >= W together, and sets it to EMPTY and increments
\* growth_left otherwise; items decreases by one in both cases.
C29_EraseByRun ==
    fault = "none" =>
        \A i \in FullIndexes :
            ErasesTo(i, IF RunBefore(Tbl, i) + RunFrom(Tbl, i) >= WIDTH THEN DELETED ELSE EMPTY)

C29_Witness ==
    /\ fault = "none"
    /\ \E i \in 0 .. bucket_mask : ctrl[i] = DELETED
    /\ \E i \in FullIndexes : RunBefore(Tbl, i) + RunFrom(Tbl, i) >= WIDTH /\ ErasesTo(i, DELETED)
    /\ \E i \in FullIndexes : EmptyBytes(Tbl, i) >= WIDTH

\* The table of capacity 8 holds exactly the four keys of its workload
FourKeys ==
    /\ fault = "none"
    /\ bucket_mask = 15
    /\ ResidentKeys(Tbl) = {Workload(bucket_mask)[n] : n \in 1 .. 4}

\* The buckets of the second and the third of the four keys
MiddleIndexes == {Lookup(Tbl, make_hash(Workload(bucket_mask)[n]), Workload(bucket_mask)[n]) : n \in {2, 3}}

\* HashIndex::get finds every key that table t holds other than the one
\* bucket index held in the current state
OthersFound(t, index) ==
    \A k \in ResidentKeys(Tbl) \ {data[index][1]} :
        HashIndex_get(t, store, k, TRUE, TRUE).ret = Some(1)

\* C30 as stated: with capacity 8 and mod_factor 0.5, after the put of four
\* keys that collide into one group, erasing a middle key sets its control
\* byte to DELETED, growth_left does not increase, and a get of each of the
\* other three keys still finds it.
C30_MiddleEraseDeleted ==
    FourKeys =>
        \A index \in MiddleIndexes :
            /\ erase_by_index(Tbl, index).ctrl[index] = DELETED
            /\ erase_by_index(Tbl, index).growth_left <= growth_left
            /\ OthersFound(erase_by_index(Tbl, index), index)

\* C30 amended: erasing a middle key sets its control byte to EMPTY,
\* growth_left increases by one, and a get of each of the other three keys
\* still finds it.
C30_MiddleEraseEmpty ==
    FourKeys =>
        \A index \in MiddleIndexes :
            /\ erase_by_index(Tbl, index).ctrl[index] = EMPTY
            /\ erase_by_index(Tbl, index).growth_left = growth_left + 1
            /\ OthersFound(erase_by_index(Tbl, index), index)

\* A middle key of the four has been erased and the other three are found
C30_Witness ==
    /\ fault = "none"
    /\ bucket_mask = 15
    /\ items = 3 /\ mod_counter = 4
    /\ ctrl[1] = EMPTY /\ is_full(ctrl[0]) /\ is_full(ctrl[2]) /\ is_full(ctrl[3])
    /\ \A k \in ResidentKeys(Tbl) : HashIndex_get(Tbl, store, k, TRUE, TRUE).ret = Some(1)

\* ---------------------------------------- the index over a table of 32 buckets
\* HashIndex::new(28, 0.9, store): 32 buckets, growth_left 28, mod_limit 25.
\* The keys 0, 29, 26, 23, ... start their probe at the buckets 0, 1, 2, 3, ...
BigLen == 30
BigKeys == {(29 * s) % 32 : s \in 0 .. (BigLen - 1)}
BigWorkload == [n \in 1 .. BigLen |-> (29 * (n - 1)) % 32]

\* The keys that are read besides being put
BigReadKeys == {BigWorkload[1], BigWorkload[BigLen]}

InitBig ==
    /\ bucket_mask = with_capacity(28, 9).bucket_mask
    /\ mod_limit = with_capacity(28, 9).mod_limit
    /\ mode = "Lazy"
    /\ ctrl = with_capacity(28, 9).ctrl
    /\ meta = with_capacity(28, 9).meta
    /\ data = with_capacity(28, 9).data
    /\ items = with_capacity(28, 9).items
    /\ growth_left = with_capacity(28, 9).growth_left
    /\ mod_counter = with_capacity(28, 9).mod_counter
    /\ fault = with_capacity(28, 9).fault
    /\ store = [rk \in {into_raw(k) : k \in BigKeys} \cup {ValueKey} |-> None]
    /\ faulty = FALSE
    /\ shadow = [k \in BigKeys |-> None]
    /\ vdata = None
    /\ vmode = "Lazy"
    /\ checkpoint_counter = 0
    /\ snapshots = <<>>

\* put of the first key of the workload that has not been put yet
BigPut ==
    /\ fault = "none"
    /\ \E n \in 1 .. BigLen :
         /\ shadow[BigWorkload[n]] = None
         /\ \A n2 \in 1 .. (n - 1) : shadow[BigWorkload[n2]] # None
         /\ Apply(HashIndex_put(Tbl, store, BigWorkload[n], 1, TRUE))
         /\ shadow' = [shadow EXCEPT ![BigWorkload[n]] = Some(1)]

NextBig ==
    \/ BigPut
    \/ \E k \in BigReadKeys : Get(k)
    \/ Persist

SpecBig == InitBig /\ [][NextBig]_vars

\* No control byte that is DELETED in table t1 is EMPTY in table t2
KeepsDeleted(t1, t2) ==
    \A i \in 0 .. t1.bucket_mask : t1.ctrl[i] = DELETED => t2.ctrl[i] = DELETED \/ is_full(t2.ctrl[i])

\* The erases inside the operations on key k, taken one by one: the one of
\* a dirty eviction and the one of the safe eviction of insert
ErasesKeepDeleted(k) ==
    /\ \A t \in EvictCalls(k) : KeepsDeleted(t, evict_mod_bucket(t, make_hash(k)).t)
    /\ SafeEvictionDue(k) =>
           KeepsDeleted(AtInsert(k).t, clear_safe_bucket(AtInsert(k).t, make_hash(k)))

\* C31: a control byte that is DELETED never becomes EMPTY: over any step of
\* the index, and over the erases within a step, it stays DELETED or becomes
\* a full byte.
C31_DeletedNeverEmpty ==
    [][/\ KeepsDeleted(Tbl, [ctrl |-> ctrl'])
       /\ fault = "none" => \A k \in BigKeys : ErasesKeepDeleted(k)]_vars

C31_Witness ==
    /\ fault = "none"
    /\ \E i \in 0 .. bucket_mask :
           /\ ctrl[i] = DELETED
           /\ \E k \in BigKeys :
                  /\ k \notin ResidentKeys(Tbl)
                  /\ HashIndex_put(Tbl, store, k, 1, TRUE).t.fault = "none"
                  /\ is_full(HashIndex_put(Tbl, store, k, 1, TRUE).t.ctrl[i])

\* What find leaves in the meta byte of the bucket it found
AfterGet(m) == IF m = SAFE THEN SAFE_TOUCHED ELSE m

\* get of key k, resident in bucket index of table t, changes that meta byte
\* as AfterGet says and leaves mod_counter and every other meta byte alone
GetKeepsDirtiness(t, k, index) ==
    With(HashIndex_get(t, store, k, TRUE, TRUE), LAMBDA g :
         /\ g.t.fault = "none"
         /\ g.ret = Some(t.data[index][2])
         /\ g.t.meta[index] = AfterGet(t.meta[index])
         /\ g.t.mod_counter = t.mod_counter
         /\ \A i \in 0 .. t.bucket_mask : i # index => g.t.meta[i] = t.meta[i])

\* get of key k in bucket index after the persist of table t: SAFE after
\* persist, SAFE_TOUCHED after the get
PersistThenGet(t, st, k, index) ==
    With(HashIndex_persist(t, st, mode, 0), LAMBDA p :
         /\ p.t.fault = "none"
         /\ p.t.meta[index] = SAFE
         /\ HashIndex_get(p.t, p.store, k, TRUE, TRUE).t.meta[index] = SAFE_TOUCHED)

\* put(k, v) of a key that is not resident, then get, persist, get: the meta
\* byte of the key's bucket is MODIFIED, MODIFIED, SAFE, SAFE_TOUCHED
PutGetPersistGet(k, v) ==
    With(HashIndex_put(Tbl, store, k, v, TRUE), LAMBDA p :
         p.t.fault = "none" =>
             /\ Lookup(p.t, make_hash(k), k) # NoIndex
             /\ p.t.meta[Lookup(p.t, make_hash(k), k)] = MODIFIED
             /\ HashIndex_get(p.t, p.store, k, TRUE, TRUE).t.meta[Lookup(p.t, make_hash(k), k)]
                    = MODIFIED
             /\ PersistThenGet(HashIndex_get(p.t, p.store, k, TRUE, TRUE).t, p.store, k,
                               Lookup(p.t, make_hash(k), k)))

\* C32: a get on a resident key never changes dirtiness: MODIFIED and
\* MODIFIED_TOUCHED stay, SAFE becomes SAFE_TOUCHED, SAFE_TOUCHED stays and
\* mod_counter is unchanged; hence put leaves the bucket MODIFIED, a
\* following get leaves it MODIFIED, a following persist makes it SAFE and a
\* following get makes it SAFE_TOUCHED.
C32_GetKeepsDirtiness ==
    fault = "none" =>
        \A k \in Keys :
            IF Lookup(Tbl, make_hash(k), k) # NoIndex
            THEN GetKeepsDirtiness(Tbl, k, Lookup(Tbl, make_hash(k), k))
            ELSE \A v \in ValuesOf(k) : PutGetPersistGet(k, v)

C32_Witness ==
    /\ fault = "none"
    /\ \E k \in Keys :
           /\ Lookup(Tbl, make_hash(k), k) # NoIndex
           /\ meta[Lookup(Tbl, make_hash(k), k)] = SAFE
           /\ HashIndex_get(Tbl, store, k, TRUE, TRUE).t.meta[Lookup(Tbl, make_hash(k), k)]
                  = SAFE_TOUCHED
    /\ \E k \in Keys :
           /\ Lookup(Tbl, make_hash(k), k) # NoIndex
           /\ meta[Lookup(Tbl, make_hash(k), k)] = MODIFIED_TOUCHED
    /\ \E k \in Keys :
           /\ Lookup(Tbl, make_hash(k), k) = NoIndex
           /\ HashIndex_put(Tbl, store, k, 1, TRUE).t.fault = "none"

\* The call evict_mod_bucket(hash) on table t, when it returns, erases the
\* victim exactly if growth_left is 0: then items is one lower and the
\* victim's control byte is EMPTY or DELETED; else the victim stays full and
\* clean, items is unchanged and table_get of its key finds it
ErasesIffFull(t, hash) ==
    With(evict_mod_bucket(t, hash), LAMBDA e :
         e.t.fault = "none" =>
             IF t.growth_left = 0
             THEN /\ e.t.items = t.items - 1
                  /\ is_special(e.t.ctrl[e.index])
             ELSE /\ e.t.items = t.items
                  /\ e.t.ctrl = t.ctrl
                  /\ is_full(e.t.ctrl[e.index])
                  /\ e.t.meta[e.index] = SAFE
                  /\ table_get(e.t, e.kv[1]).ret = Some(e.kv[2]))

\* C33: evict_mod_bucket physically erases the victim (items decreases by
\* one and the victim's control byte becomes EMPTY or DELETED) if and only if
\* growth_left == 0 at the time of the call; otherwise the victim stays
\* resident as a clean bucket, items is unchanged, and a later get of its key
\* is a memory hit.
C33_EvictErasesIffFull ==
    fault = "none" =>
        \A k \in Keys : \A t \in EvictCalls(k) : ErasesIffFull(t, make_hash(k))

C33_Witness ==
    /\ fault = "none"
    /\ \E k \in Keys : \E t \in EvictCalls(k) :
           /\ t.growth_left = 0
           /\ evict_mod_bucket(t, make_hash(k)).t.fault = "none"
           /\ evict_mod_bucket(t, make_hash(k)).t.items = t.items - 1
    /\ mod_limit > 0

\* RawTable::insert(hash, <<k, v>>) on table t, with t1 the table in which
\* the slot is looked for and index the slot: both bytes of the slot and
\* their replicas are written, the value is stored, items and mod_counter go
\* up by one, growth_left goes down by one exactly if the byte was EMPTY
InsertWrites(t, t1, k, v, index) ==
    With(insert(t, make_hash(k), <<k, v>>), LAMBDA r :
         r.fault = "none" =>
             /\ index \in 0 .. t.bucket_mask
             /\ r.ctrl[index] = h2(make_hash(k))
             /\ r.ctrl[ReplicaIndex(t, index)] = h2(make_hash(k))
             /\ r.meta[index] = MODIFIED
             /\ r.meta[ReplicaIndex(t, index)] = MODIFIED
             /\ r.data[index] = <<k, v>>
             /\ r.items = t1.items + 1
             /\ r.mod_counter = t1.mod_counter + 1
             /\ r.growth_left = (IF t1.ctrl[index] = EMPTY THEN t1.growth_left - 1
                                 ELSE t1.growth_left))

InsertOf(t, k, v) ==
    InsertWrites(t, AtFindSlot(t, make_hash(k)), k, v,
                 find_insert_slot(AtFindSlot(t, make_hash(k)), make_hash(k)))

\* The keys of the raw table's workload that table t does not hold
WorkloadAbsent(t) ==
    {Workload(t.bucket_mask)[n] : n \in 1 .. Len(Workload(t.bucket_mask))} \ ResidentKeys(t)

\* C34: RawTable::insert of a value into slot i sets ctrl[i] and its replica
\* to h2(hash) and meta[i] and its replica to MODIFIED, increments items and
\* mod_counter by exactly one, and decrements growth_left by one if and only
\* if the control byte it overwrote was EMPTY (overwriting DELETED leaves
\* growth_left unchanged).
C34_InsertWrites ==
    fault = "none" => \A k \in WorkloadAbsent(Tbl) : InsertOf(Tbl, k, 1)

C34_Witness ==
    /\ fault = "none"
    /\ \E k \in WorkloadAbsent(Tbl) :
           /\ ctrl[find_insert_slot(Tbl, make_hash(k))] = DELETED
           /\ insert(Tbl, make_hash(k), <<k, 1>>).fault = "none"
           /\ insert(Tbl, make_hash(k), <<k, 1>>).growth_left = growth_left
    /\ \E k \in WorkloadAbsent(Tbl) : \E i \in 0 .. bucket_mask : ctrl[i] = EMPTY

\* Table r is table t with the meta byte of bucket index (and its replica)
\* stamped MODIFIED_TOUCHED and one more modification counted exactly if the
\* byte was clean; nothing else differs
Stamped(t, r, index) ==
    /\ r.meta = [t.meta EXCEPT ![index] = MODIFIED_TOUCHED,
                               ![ReplicaIndex(t, index)] = MODIFIED_TOUCHED]
    /\ r.mod_counter = (IF t.meta[index] \in {SAFE, SAFE_TOUCHED}
                        THEN t.mod_counter + 1 ELSE t.mod_counter)
    /\ r.ctrl = t.ctrl /\ r.items = t.items /\ r.growth_left = t.growth_left
    /\ r.fault = t.fault

\* C35: find_mut on a resident key (used by put on a resident key and by
\* rmw) stamps the bucket's meta to MODIFIED_TOUCHED unconditionally and
\* increments mod_counter by one if and only if the meta was clean (SAFE or
\* SAFE_TOUCHED) before; find_mut on an absent key changes nothing.
C35_FindMutStamps ==
    fault = "none" =>
        \A k \in Keys :
            IF Lookup(Tbl, make_hash(k), k) = NoIndex
            THEN /\ find_mut(Tbl, make_hash(k), k).t = Tbl
                 /\ find_mut(Tbl, make_hash(k), k).index = NoIndex
            ELSE /\ find_mut(Tbl, make_hash(k), k).index = Lookup(Tbl, make_hash(k), k)
                 /\ data[Lookup(Tbl, make_hash(k), k)][1] = k
                 /\ Stamped(Tbl, find_mut(Tbl, make_hash(k), k).t, Lookup(Tbl, make_hash(k), k))
                 /\ find_mut(Tbl, make_hash(k), k).t.data = data
                 /\ \A v \in ValuesOf(k) :
                        Stamped(Tbl, HashIndex_put(Tbl, store, k, v, TRUE).t,
                                Lookup(Tbl, make_hash(k), k))

C35_Witness ==
    /\ fault = "none"
    /\ \E k \in Keys :
           /\ Lookup(Tbl, make_hash(k), k) # NoIndex
           /\ meta[Lookup(Tbl, make_hash(k), k)] = SAFE_TOUCHED
           /\ find_mut(Tbl, make_hash(k), k).t.mod_counter = mod_counter + 1
    /\ \E k \in Keys :
           /\ Lookup(Tbl, make_hash(k), k) # NoIndex
           /\ meta[Lookup(Tbl, make_hash(k), k)] = MODIFIED
           /\ find_mut(Tbl, make_hash(k), k).t.mod_counter = mod_counter
    /\ \E k \in Keys : Lookup(Tbl, make_hash(k), k) = NoIndex

\* Table r has the items, the growth_left and the control bytes of table t
SameOccupancy(t, r) ==
    /\ r.fault = "none"
    /\ r.items = t.items
    /\ r.growth_left = t.growth_left
    /\ r.ctrl = t.ctrl

\* C36: a get that hits memory, a put on a resident key, and an rmw on a
\* resident key that triggers no eviction leave items, growth_left and every
\* control byte unchanged.
C36_InPlaceFrame ==
    fault = "none" =>
        \A k \in Keys :
            Lookup(Tbl, make_hash(k), k) # NoIndex =>
                /\ SameOccupancy(Tbl, HashIndex_get(Tbl, store, k, TRUE, TRUE).t)
                /\ \A v \in ValuesOf(k) : SameOccupancy(Tbl, HashIndex_put(Tbl, store, k, v, TRUE).t)
                /\ ~above_mod_threshold(AtRmwCheck(k)) =>
                       SameOccupancy(Tbl, HashIndex_rmw(Tbl, store, k, TRUE, TRUE).t)

C36_Witness ==
    /\ fault = "none"
    /\ \E k \in Keys :
           /\ Lookup(Tbl, make_hash(k), k) # NoIndex
           /\ ~above_mod_threshold(AtRmwCheck(k))
           /\ HashIndex_rmw(Tbl, store, k, TRUE, TRUE).t.meta # meta
           /\ HashIndex_get(Tbl, store, k, TRUE, TRUE).t.meta # meta
    /\ items >= 2

\* The position of the probe sequence at which evict_mod_bucket and
\* clear_safe_bucket find a byte of their kind
ModPos(t, hash) ==
    FirstPos(probe_seq(t, hash),
             {p \in Positions(probe_seq(t, hash)) : ModBit(Load(t.meta, p)) # NoIndex})
SafePos(t, hash) ==
    FirstPos(probe_seq(t, hash),
             {p \in Positions(probe_seq(t, hash)) : SafeBit(Load(t.meta, p)) # NoIndex})

\* The full buckets with meta byte m that the group at pos holds
GroupBuckets(t, pos, m) ==
    {i \in {Masked(t, pos + j) : j \in 0 .. (WIDTH - 1)} : is_full(t.ctrl[i]) /\ t.meta[i] = m}

\* A victim with meta byte hot is taken from a group without a full bucket
\* of meta byte cold
PrefersCold(t, pos, victim, hot, cold) ==
    victim \in 0 .. t.bucket_mask /\ t.meta[victim] = hot => GroupBuckets(t, pos, cold) = {}

\* C37: eviction prefers cold victims within the group where the victim is
\* chosen: evict_mod_bucket picks a MODIFIED_TOUCHED bucket only if that group
\* holds no MODIFIED bucket, and clear_safe_bucket picks a SAFE_TOUCHED bucket
\* only if that group holds no full SAFE bucket.
C37_PrefersCold ==
    fault = "none" =>
        \A k \in Keys :
            /\ \A t \in EvictCalls(k) :
                   PrefersCold(t, ModPos(t, make_hash(k)), ModVictim(t, make_hash(k)),
                               MODIFIED_TOUCHED, MODIFIED)
            /\ SafeEvictionDue(k) =>
                   PrefersCold(AtInsert(k).t, SafePos(AtInsert(k).t, make_hash(k)),
                               SafeVictim(AtInsert(k).t, make_hash(k)), SAFE_TOUCHED, SAFE)

\* ------------------------------------------ tables of every group count
\* HashIndex::new with capacities that give 2, 4, 8, 16, 32, 64 and 128
\* buckets (one group window up to eight of them), and the index's
\* operations, each of which walks the probe sequence of its key.
ProbeCapacities == {1, 3, 7, 14, 28, 56, 112}

InitProbe == \E cap \in ProbeCapacities : InitWith(cap, 9, "Lazy", FALSE)

NextProbe ==
    \/ \E k \in StateKeys : \E v \in ValuesOf(k) : Put(k, v)
    \/ \E k \in StateKeys : Get(k)
    \/ Persist

SpecProbe == InitProbe /\ [][NextProbe]_vars

\* The groups of a table of mask + 1 buckets: one window for tables up to
\* Group::WIDTH buckets, (mask + 1) / WIDTH of them beyond
GroupCount(mask) == IF mask + 1 <= WIDTH THEN 1 ELSE (mask + 1) \div WIDTH

\* The bucket indexes the window loaded at pos stands for
WindowBuckets(mask, pos) == {(pos + o) % (mask + 1) : o \in 0 .. (WIDTH - 1)}

\* The probe sequence started at start yields no window twice, as many
\* windows as the table has groups and no more than it has buckets, and the
\* windows together stand for every bucket index.
ProbeCovers(mask, start, seq) ==
    /\ Len(seq) <= mask + 1
    /\ Len(seq) = GroupCount(mask)
    /\ seq[1] = start
    /\ \A i \in 1 .. Len(seq) : \A j \in 1 .. Len(seq) : seq[i] = seq[j] => i = j
    /\ UNION {WindowBuckets(mask, seq[j]) : j \in 1 .. Len(seq)} = 0 .. mask

MaxBuilt == 57
BuiltCapacities == 1 .. MaxBuilt
BuiltFactors == 1 .. 9

InitBuilt ==
    \E cap \in BuiltCapacities, mod_factor \in BuiltFactors :
        InitWith(cap, mod_factor, "Lazy", FALSE)

NextBuilt ==
    \/ \E v \in ValuesOf(0) : Put(0, v)
    \/ Get(0)
    \/ Persist

SpecBuilt == InitBuilt /\ [][NextBuilt]_vars

\* The bucket count the rule gives for n entries: the next power of two of
\* n + 1 below 8 entries, of the ceiling of 8n/7 from 8 entries on
BucketsFor(n) == next_power_of_two(IF n < 8 THEN n + 1 ELSE (8 * n + 6) \div 7)

\* The entries a table of b buckets may hold: all but one slot up to 8
\* buckets, seven eighths of the slots beyond
EffectiveCapacity(b) == IF b <= 8 THEN b - 1 ELSE (7 * b) \div 8

\* The table t is what the rule asks of with_capacity(n, f), f in tenths
BuiltAsAsked(n, f, t) ==
    /\ t.fault = "none"
    /\ \E i \in 1 .. 10 : t.bucket_mask + 1 = 2^i
    /\ t.bucket_mask + 1 = BucketsFor(n)
    /\ t.growth_left = EffectiveCapacity(t.bucket_mask + 1)
    /\ t.growth_left >= n
    /\ t.items = 0
    /\ 10 * t.mod_limit <= t.growth_left * f
    /\ t.growth_left * f < 10 * (t.mod_limit + 1)

\* C39: with_capacity(n, f) for n >= 1 yields a table whose bucket count is
\* the power of two next_pow2(n + 1) if n < 8 and next_pow2(ceil(8n/7))
\* otherwise, whose initial growth_left is the effective capacity of that
\* bucket count and at least n, and whose mod_limit is floor(growth_left * f).
C39_WithCapacity ==
    \A n \in BuiltCapacities, f \in BuiltFactors :
        (/\ bucket_mask = with_capacity(n, f).bucket_mask
         /\ mod_limit = with_capacity(n, f).mod_limit)
            => BuiltAsAsked(n, f, with_capacity(n, f))

\* The table with_capacity(n, 0.5) builds for n = 15 .. 28: 32 buckets that
\* may take 28 entries, 14 of them dirty
C39_Witness ==
    /\ bucket_mask = 31
    /\ items = 0
    /\ growth_left = 28
    /\ mod_limit = 14
    /\ \A i \in 0 .. (bucket_mask + WIDTH) : ctrl[i] = EMPTY

\* The full buckets of t that hold key k
HoldersOf(t, k) ==
    {i \in 0 .. t.bucket_mask :
        is_full(t.ctrl[i]) /\ t.data[i] # NoEntry /\ t.data[i][1] = k}

\* C40: in every reachable state of a HashIndex no key occupies more than
\* one full bucket, and a key the lookup does not find occupies none, so
\* that put, rmw and the get miss path insert only keys that are not
\* resident.
C40_OneBucketPerKey ==
    \A k \in Keys :
        /\ Cardinality(HoldersOf(Tbl, k)) <= 1
        /\ Lookup(Tbl, make_hash(k), k) = NoIndex => HoldersOf(Tbl, k) = {}

\* Keys 3 and 7, which start their probe at the same bucket, both resident
\* next to a third key, key 7 having been written to the store before
C40_Witness ==
    /\ fault = "none"
    /\ FullBuckets(Tbl) = 3
    /\ HoldersOf(Tbl, 3) # {}
    /\ HoldersOf(Tbl, 7) # {}
    /\ store[into_raw(7)] # None
====
